---- MODULE Spec2Model ----
\* A model of noema-core's indexing and retrieval engine:
\*   chunks.rs  (chunk_note, chunk_notes and the boundary-preferring splitter),
\*   store.rs   (VectorStore: add, add_batch, search),
\*   notes.rs   (scan_notes, is_hidden, strip_frontmatter),
\*   ollama.rs  (embed_batch, as far as build_index depends on it),
\*   index.rs   (build_index: scan -> chunk -> embed -> store).
\* Strings are modelled as Rust stores them: sequences of UTF-8 bytes. Lengths and
\* slice positions are byte offsets, and slicing inside a multi-byte character
\* aborts the operation (a panic), as `&text[..n]` does.
EXTENDS Integers, Sequences, FiniteSets, TLC

\* ---------------------------------------------------------------- bounds
\* Longest note body (in bytes, summed over the notes of one chunk_notes call).
MaxBodyLen == 4
\* Largest chunk budget tried (budgets 0..MaxBudget).
MaxBudget == 3
\* Most notes handed to one chunk_notes call.
MaxNotes == 2
\* The build_index invocations, which run concurrently.
NumRuns == 2
\* Most pieces a file content is put together from.
MaxTokens == 6
\* Most entries under the root of a scanned tree.
MaxEntries == 3
\* Longest text (in bytes) handed to split_long_text.
MaxTextLen == 5

\* ---------------------------------------------------------------- bytes
\* The bytes a body is made of: an ASCII letter, a space, a line break, and the
\* two bytes of one two-byte character (lead byte HI, continuation byte LO).
A == "a"
SP == "sp"
NL == "nl"
HI == "hi"
LO == "lo"
Bytes == {A, SP, NL, HI, LO}

\* char::is_whitespace, on the bytes of the model.
IsWs(b) == b \in {SP, NL}

\* A well-formed UTF-8 string: every lead byte is followed by its continuation
\* byte and every continuation byte follows a lead byte.
ValidStr(s) ==
    /\ \A i \in 1..Len(s) : s[i] = HI => (i < Len(s) /\ s[i + 1] = LO)
    /\ \A i \in 1..Len(s) : s[i] = LO => (i > 1 /\ s[i - 1] = HI)

SetMin(S) == CHOOSE x \in S : \A y \in S : x <= y
SetMax(S) == CHOOSE x \in S : \A y \in S : x >= y
Min2(a, b) == IF a <= b THEN a ELSE b

\* str::is_char_boundary(i), i a byte offset in 0..len.
IsCharBoundary(s, i) ==
    \/ i = 0
    \/ i = Len(s)
    \/ (i < Len(s) /\ s[i + 1] # LO)

\* &s[..i] and &s[i..] for a byte offset i that is a character boundary.
SliceTo(s, i) == SubSeq(s, 1, i)
SliceFrom(s, i) == SubSeq(s, i + 1, Len(s))

\* str::trim_start, str::trim_end, str::trim.
TrimStart(s) ==
    LET keep == {i \in 1..Len(s) : ~IsWs(s[i])}
    IN  IF keep = {} THEN <<>> ELSE SubSeq(s, SetMin(keep), Len(s))

TrimEnd(s) ==
    LET keep == {i \in 1..Len(s) : ~IsWs(s[i])}
    IN  IF keep = {} THEN <<>> ELSE SubSeq(s, 1, SetMax(keep))

Trim(s) == TrimEnd(TrimStart(s))

\* str::rfind(b) for a one-byte pattern: the byte offset of the last match, or -1
\* for None.
RFind(s, b) ==
    LET hits == {i \in 1..Len(s) : s[i] = b}
    IN  IF hits = {} THEN -1 ELSE SetMax(hits) - 1

\* A variant of the paragraph split that breaks at every single line break.
RECURSIVE SplitAtEveryLineBreak(_)
SplitAtEveryLineBreak(s) ==
    LET hits == {i \in 1..Len(s) : s[i] = NL}
    IN  IF hits = {}
        THEN <<s>>
        ELSE LET i == SetMin(hits)
             IN  <<SubSeq(s, 1, i - 1)>> \o SplitAtEveryLineBreak(SubSeq(s, i + 1, Len(s)))

\* str::split("\n\n"): the pieces between non-overlapping matches, found left to
\* right; a string without a match is one piece.
RECURSIVE SplitParas(_)
SplitParas(s) ==
    LET hits == {i \in 1..(Len(s) - 1) : s[i] = NL /\ s[i + 1] = NL}
    IN  IF hits = {}
        THEN <<s>>
        ELSE LET i == SetMin(hits)
             IN  <<SubSeq(s, 1, i - 1)>> \o SplitParas(SubSeq(s, i + 2, Len(s)))

\* ---------------------------------------------------------------- chunks.rs
\* The outcome of a slice that is not on a character boundary.
SplitPanic == [ok |-> FALSE, chunk |-> <<>>, rest |-> <<>>]

\* Variants of try_split_at_boundary, each with one slip:
\* the hard cut taken one byte late,
TrySplitCutLate(text, max) ==
    LET cut == Min2(Len(text), max + 1)
        segment == SliceTo(text, cut)
        pn == RFind(segment, NL)
        ps == RFind(segment, SP)
    IN  IF ~IsCharBoundary(text, cut)
        THEN SplitPanic
        ELSE IF pn >= 0
        THEN [ok |-> TRUE, chunk |-> Trim(SliceTo(text, pn)),
              rest |-> TrimStart(SliceFrom(text, pn + 1))]
        ELSE IF ps >= 0
        THEN [ok |-> TRUE, chunk |-> SliceTo(text, ps),
              rest |-> TrimStart(SliceFrom(text, ps + 1))]
        ELSE [ok |-> TRUE, chunk |-> SliceTo(text, cut),
              rest |-> TrimStart(SliceFrom(text, cut))]

\* the remainder of a hard cut resumed one byte after the cut, as after a
\* line break or a space,
TrySplitSkipAfterCut(text, max) ==
    LET cut == Min2(Len(text), max + 1)
        segment == SliceTo(text, cut)
        pn == RFind(segment, NL)
        ps == RFind(segment, SP)
    IN  IF ~IsCharBoundary(text, cut)
        THEN SplitPanic
        ELSE IF pn >= 0
        THEN [ok |-> TRUE, chunk |-> Trim(SliceTo(text, pn)),
              rest |-> TrimStart(SliceFrom(text, pn + 1))]
        ELSE IF ps >= 0
        THEN [ok |-> TRUE, chunk |-> SliceTo(text, ps),
              rest |-> TrimStart(SliceFrom(text, ps + 1))]
        ELSE IF ~IsCharBoundary(text, max) \/ ~IsCharBoundary(text, max + 1)
        THEN SplitPanic
        ELSE [ok |-> TRUE, chunk |-> SliceTo(text, max),
              rest |-> TrimStart(SliceFrom(text, max + 1))]

\* the remainder after a space left untrimmed,
TrySplitNoTrimStart(text, max) ==
    LET cut == Min2(Len(text), max + 1)
        segment == SliceTo(text, cut)
        pn == RFind(segment, NL)
        ps == RFind(segment, SP)
    IN  IF ~IsCharBoundary(text, cut)
        THEN SplitPanic
        ELSE IF pn >= 0
        THEN [ok |-> TRUE, chunk |-> Trim(SliceTo(text, pn)),
              rest |-> TrimStart(SliceFrom(text, pn + 1))]
        ELSE IF ps >= 0
        THEN [ok |-> TRUE, chunk |-> SliceTo(text, ps),
              rest |-> SliceFrom(text, ps + 1)]
        ELSE IF ~IsCharBoundary(text, max)
        THEN SplitPanic
        ELSE [ok |-> TRUE, chunk |-> SliceTo(text, max),
              rest |-> TrimStart(SliceFrom(text, max))]

\* and a space in the window preferred to a line break.
TrySplitSpaceFirst(text, max) ==
    LET cut == Min2(Len(text), max + 1)
        segment == SliceTo(text, cut)
        pn == RFind(segment, NL)
        ps == RFind(segment, SP)
    IN  IF ~IsCharBoundary(text, cut)
        THEN SplitPanic
        ELSE IF ps >= 0
        THEN [ok |-> TRUE, chunk |-> SliceTo(text, ps),
              rest |-> TrimStart(SliceFrom(text, ps + 1))]
        ELSE IF pn >= 0
        THEN [ok |-> TRUE, chunk |-> Trim(SliceTo(text, pn)),
              rest |-> TrimStart(SliceFrom(text, pn + 1))]
        ELSE IF ~IsCharBoundary(text, max)
        THEN SplitPanic
        ELSE [ok |-> TRUE, chunk |-> SliceTo(text, max),
              rest |-> TrimStart(SliceFrom(text, max))]

\* try_split_at_boundary(text, max_chars), called with text.len() > max_chars.
TrySplitAtBoundary(text, max) ==
    LET cut == Min2(Len(text), max + 1)
    IN  IF ~IsCharBoundary(text, cut)
        THEN SplitPanic
        ELSE LET segment == SliceTo(text, cut)
                 pn == RFind(segment, NL)
                 ps == RFind(segment, SP)
             IN  IF pn >= 0
                 THEN [ok |-> TRUE,
                       chunk |-> Trim(SliceTo(text, pn)),
                       rest |-> TrimStart(SliceFrom(text, pn + 1))]
                 ELSE IF ps >= 0
                 THEN [ok |-> TRUE,
                       chunk |-> SliceTo(text, ps),
                       rest |-> TrimStart(SliceFrom(text, ps + 1))]
                 ELSE IF ~IsCharBoundary(text, max)
                 THEN SplitPanic
                 ELSE [ok |-> TRUE,
                       chunk |-> SliceTo(text, max),
                       rest |-> TrimStart(SliceFrom(text, max))]

\* One iteration of split_long_text's while loop on the loop state
\* [remaining, result, st]; st is "loop" while the loop runs, "end" once it has
\* left the loop and "panic" when a slice aborted.
LongIter(ls, max) ==
    IF ls.remaining = <<>>
    THEN [ls EXCEPT !.st = "end"]
    ELSE IF Len(ls.remaining) <= max
    THEN [remaining |-> ls.remaining,
          result |-> Append(ls.result, Trim(ls.remaining)),
          st |-> "end"]
    ELSE LET r == TrySplitAtBoundary(ls.remaining, max)
         IN  IF ~r.ok
             THEN [ls EXCEPT !.st = "panic"]
             ELSE [remaining |-> r.rest,
                   result |-> Append(ls.result, r.chunk),
                   st |-> "loop"]

\* split_long_text(text, max_chars): the loop run to its end.
RECURSIVE LongRun(_, _)
LongRun(ls, max) ==
    IF ls.st # "loop" THEN ls ELSE LongRun(LongIter(ls, max), max)

SplitLongText(text, max) ==
    LET e == LongRun([remaining |-> text, result |-> <<>>, st |-> "loop"], max)
    IN  [ok |-> e.st = "end", val |-> e.result]

\* The body of split_into_chunks' loop over the paragraphs, for one paragraph:
\* acc is [ok, val], the result vector so far.
ParaIter(acc, para0, max) ==
    LET para == Trim(para0)
    IN  IF ~acc.ok \/ para = <<>>
        THEN acc
        ELSE IF Len(para) <= max
        THEN [ok |-> TRUE, val |-> Append(acc.val, para)]
        ELSE LET l == SplitLongText(para, max)
             IN  [ok |-> l.ok, val |-> acc.val \o l.val]

RECURSIVE ParaRun(_, _, _)
ParaRun(acc, ps, max) ==
    IF ps = <<>> THEN acc ELSE ParaRun(ParaIter(acc, Head(ps), max), Tail(ps), max)

\* The fallback after the paragraph loop: nothing was produced although the
\* text is not blank.
Fallback(acc, text, max) ==
    IF acc.ok /\ acc.val = <<>> /\ Trim(text) # <<>>
    THEN SplitLongText(Trim(text), max)
    ELSE acc

\* split_into_chunks(text, max_chars): [ok, val], val the vector of strings.
SplitIntoChunks(text, max) ==
    IF max = 0
    THEN [ok |-> TRUE, val |-> <<text>>]
    ELSE Fallback(ParaRun([ok |-> TRUE, val |-> <<>>], SplitParas(text), max), text, max)

\* The loop of chunk_note over the enumerated strings: position i (from 0) is the
\* index given to the chunk; a string that is blank after trimming is skipped.
RECURSIVE Enumerate(_, _, _)
Enumerate(texts, path, i) ==
    IF texts = <<>>
    THEN <<>>
    ELSE LET t == Trim(Head(texts))
             more == Enumerate(Tail(texts), path, i + 1)
         IN  IF t # <<>>
             THEN <<[text |-> t, note_path |-> path, index |-> i]>> \o more
             ELSE more

\* A Note: its path, the raw file content and the body.
MkNote(path, raw, body) == [path |-> path, raw |-> raw, body |-> body]

\* chunk_note(note, max_chars): [ok, val], val the note's chunks; ok is FALSE
\* when a slice aborted the call.
ChunkNote(note, max) ==
    LET body == Trim(note.body)
    IN  IF body = <<>>
        THEN [ok |-> TRUE, val |-> <<>>]
        ELSE LET s == SplitIntoChunks(body, max)
             IN  [ok |-> s.ok,
                  val |-> IF s.ok THEN Enumerate(s.val, note.path, 0) ELSE <<>>]

\* chunk_notes(notes, max_chars): the notes' chunks in note order.
RECURSIVE ChunkNotesFrom(_, _, _)
ChunkNotesFrom(ns, k, max) ==
    IF k > Len(ns)
    THEN [ok |-> TRUE, val |-> <<>>]
    ELSE LET c == ChunkNote(ns[k], max)
         IN  IF ~c.ok
             THEN [ok |-> FALSE, val |-> <<>>]
             ELSE LET more == ChunkNotesFrom(ns, k + 1, max)
                  IN  [ok |-> more.ok, val |-> IF more.ok THEN c.val \o more.val ELSE <<>>]

ChunkNotes(ns, max) == ChunkNotesFrom(ns, 1, max)

\* ---------------------------------------------------------------- store.rs
\* An f32 is modelled exactly: a small integer, or NaN. A vector of f32 is a
\* sequence of such scalars.
Num(x) == [nan |-> FALSE, num |-> x]
NaN == [nan |-> TRUE, num |-> 0]

Abs(x) == IF x < 0 THEN -x ELSE x
RECURSIVE Gcd(_, _)
Gcd(a, b) == IF b = 0 THEN a ELSE Gcd(b, a % b)
RECURSIVE SumSq(_)
SumSq(v) == IF v = <<>> THEN 0 ELSE Head(v).num * Head(v).num + SumSq(Tail(v))
RECURSIVE VecGcd(_)
VecGcd(v) == IF v = <<>> THEN 0 ELSE Gcd(Abs(Head(v).num), VecGcd(Tail(v)))

\* A variant of normalize that returns the vector as given.
NormalizeNot(v) ==
    [nan |-> \E i \in 1..Len(v) : v[i].nan,
     v |-> [i \in 1..Len(v) |-> v[i].num],
     n2 |-> 1]

\* normalize(v). The result is the vector v / sqrt(n2), kept exactly as the
\* integer vector `v` and the squared divisor `n2`, reduced to lowest terms so
\* that equal vectors have equal representations. A NaN among the components
\* makes the norm NaN, the test `norm <= 0.0` false and every quotient NaN; a
\* zero norm returns the vector unchanged.
Normalize(v) ==
    IF \E i \in 1..Len(v) : v[i].nan
    THEN [nan |-> TRUE, v |-> [i \in 1..Len(v) |-> 0], n2 |-> 1]
    ELSE IF SumSq(v) <= 0
    THEN [nan |-> FALSE, v |-> [i \in 1..Len(v) |-> v[i].num], n2 |-> 1]
    ELSE LET g == VecGcd(v)
         IN  [nan |-> FALSE,
              v |-> [i \in 1..Len(v) |-> v[i].num \div g],
              n2 |-> SumSq(v) \div (g * g)]

\* dot(a, b) of two normalized vectors, over the overlapping length: the score
\* num / sqrt(den2), or NaN.
RECURSIVE DotInt(_, _, _)
DotInt(a, b, n) == IF n = 0 THEN 0 ELSE a[n] * b[n] + DotInt(a, b, n - 1)

Dot(a, b) ==
    LET n == Min2(Len(a.v), Len(b.v))
    IN  IF n = 0
        THEN [nan |-> FALSE, num |-> 0, den2 |-> 1]
        ELSE IF a.nan \/ b.nan
        THEN [nan |-> TRUE, num |-> 0, den2 |-> 1]
        ELSE [nan |-> FALSE, num |-> DotInt(a.v, b.v, n), den2 |-> a.n2 * b.n2]

\* x < y for two scores that are not NaN.
ScoreLt(x, y) ==
    IF x.num >= 0 /\ y.num >= 0
    THEN x.num * x.num * y.den2 < y.num * y.num * x.den2
    ELSE IF x.num < 0 /\ y.num < 0
    THEN x.num * x.num * y.den2 > y.num * y.num * x.den2
    ELSE x.num < 0

\* f32::partial_cmp.
PartialCmp(x, y) ==
    IF x.nan \/ y.nan THEN "None"
    ELSE IF ScoreLt(x, y) THEN "Less"
    ELSE IF ScoreLt(y, x) THEN "Greater"
    ELSE "Equal"

\* The comparator of search's sort_by: b.1.partial_cmp(&a.1).unwrap_or(Equal).
Compare(a, b) ==
    LET c == PartialCmp(b.score, a.score)
    IN  IF c = "None" THEN "Equal" ELSE c

\* slice::sort_by on a slice of at most 20 elements: an insertion sort that
\* moves each element left past the elements it compares Less to.
RECURSIVE InsertTail(_, _)
InsertTail(sorted, x) ==
    IF sorted = <<>>
    THEN <<x>>
    ELSE IF Compare(x, sorted[Len(sorted)]) = "Less"
    THEN Append(InsertTail(SubSeq(sorted, 1, Len(sorted) - 1), x), sorted[Len(sorted)])
    ELSE Append(sorted, x)

RECURSIVE SortFrom(_, _)
SortFrom(sorted, rest) ==
    IF rest = <<>> THEN sorted ELSE SortFrom(InsertTail(sorted, Head(rest)), Tail(rest))

SortBy(v) == SortFrom(<<>>, v)

\* Iterator::take(k).
Take(v, k) == SubSeq(v, 1, Min2(k, Len(v)))

\* VectorStore::new().
VectorStoreNew == <<>>

\* A variant of add that puts the new entry in the place of the latest one.
AddOverLatest(its, chunk, embedding) ==
    LET e == [chunk |-> chunk, embedding |-> Normalize(embedding)]
    IN  IF its = <<>> THEN <<e>> ELSE [its EXCEPT ![Len(its)] = e]

\* VectorStore::add(chunk, embedding): the items after the call.
Add(its, chunk, embedding) ==
    Append(its, [chunk |-> chunk, embedding |-> Normalize(embedding)])

\* VectorStore::add_batch(chunks, embeddings) past its length assertion: add,
\* pairwise in order.
RECURSIVE AddBatch(_, _, _)
AddBatch(its, cs, es) ==
    IF cs = <<>> \/ es = <<>>
    THEN its
    ELSE AddBatch(Add(its, Head(cs), Head(es)), Tail(cs), Tail(es))

\* A variant of search that returns every scored entry, whatever k is.
SearchTakeAll(its, q, k) ==
    IF its = <<>> \/ q = <<>>
    THEN <<>>
    ELSE SortBy([i \in 1..Len(its) |->
                    [chunk |-> its[i].chunk, score |-> Dot(Normalize(q), its[i].embedding)]])

\* VectorStore::search(query_embedding, k): the (chunk, score) pairs returned.
Search(its, q, k) ==
    IF its = <<>> \/ q = <<>>
    THEN <<>>
    ELSE LET q_norm == Normalize(q)
             scored == [i \in 1..Len(its) |->
                           [chunk |-> its[i].chunk, score |-> Dot(q_norm, its[i].embedding)]]
         IN  Take(SortBy(scored), k)

\* VectorStore::len() and VectorStore::is_empty().
StoreLen(its) == Len(its)
StoreIsEmpty(its) == its = <<>>

\* ---------------------------------------------------------------- notes.rs
\* The byte '-', which only file contents with frontmatter use.
DASH == "dash"

\* str::starts_with(pat) and str::find(pat): the byte offset of the first match,
\* or -1 for None.
StartsWith(s, pat) == Len(s) >= Len(pat) /\ SubSeq(s, 1, Len(pat)) = pat

Find(s, pat) ==
    LET hits == {i \in 0..(Len(s) - Len(pat)) : SubSeq(s, i + 1, i + Len(pat)) = pat}
    IN  IF hits = {} THEN -1 ELSE SetMin(hits)

\* strip_frontmatter(content).
StripFrontmatter(content) ==
    LET s == TrimStart(content)
    IN  IF ~StartsWith(s, <<DASH, DASH, DASH>>)
        THEN content
        ELSE LET after_first == TrimStart(SliceFrom(s, 3))
                 rest == Find(after_first, <<NL, DASH, DASH, DASH>>)
             IN  IF rest >= 0
                 THEN TrimStart(SliceFrom(after_first, rest + 4))
                 ELSE content

\* A directory tree as WalkDir lists it: root_is_dir, and the entries in walk
\* order (a directory, then its contents), the root itself first at depth 0.
\* An entry has its depth, whether its name starts with '.', whether its
\* extension is "md", its kind ("file", "dir", or "err" for an entry the walk
\* could not read), whether read_to_string succeeds on it, and its content.
\* An entry's path is its position in the listing.
Entry(depth, hidden, md, kind, readable, raw) ==
    [depth |-> depth, hidden |-> hidden, md |-> md, kind |-> kind,
     readable |-> readable, raw |-> raw]

\* is_hidden(entry).
IsHidden(e) == e.hidden

ScanOk(ns) == [ok |-> TRUE, err |-> "none", notes |-> ns]
ScanErr(e) == [ok |-> FALSE, err |-> e, notes |-> <<>>]

\* The loop of scan_notes over WalkDir's entries from position i on; skip is the
\* depth of the hidden directory whose contents filter_entry is passing over
\* (-1 when there is none), acc the notes pushed so far.
RECURSIVE ScanFrom(_, _, _, _)
ScanFrom(es, i, skip, acc) ==
    IF i > Len(es)
    THEN ScanOk(acc)
    ELSE LET e == es[i]
         IN  IF skip >= 0 /\ e.depth > skip
             THEN ScanFrom(es, i + 1, skip, acc)
             ELSE IF e.kind = "err"
             THEN ScanErr("Walk")
             ELSE IF IsHidden(e)
             THEN ScanFrom(es, i + 1, IF e.kind = "dir" THEN e.depth ELSE -1, acc)
             ELSE IF e.md /\ e.kind = "file"
             THEN IF ~e.readable
                  THEN ScanErr("Read")
                  ELSE ScanFrom(es, i + 1, -1,
                                Append(acc, MkNote(i, e.raw, StripFrontmatter(e.raw))))
             ELSE ScanFrom(es, i + 1, -1, acc)

\* scan_notes(root).
ScanNotes(fs) ==
    IF ~fs.root_is_dir
    THEN ScanErr("NotADirectory")
    ELSE ScanFrom(fs.entries, 1, -1, <<>>)

\* ---------------------------------------------------------------- index.rs
DEFAULT_MAX_CHARS == 512

\* Option<usize>: None, Some(n), and unwrap_or.
None == [some |-> FALSE, val |-> 0]
Some(n) == [some |-> TRUE, val |-> n]
UnwrapOr(opt, d) == IF opt.some THEN opt.val ELSE d

\* What build_index returns: Ok(store), or Err(IndexError) with the variant
\* (Scan, Ollama) and its cause; NoResult while it has not returned.
ResOk(store) == [kind |-> "Ok", err |-> "none", cause |-> "none", store |-> store]
ResErr(e, cause) == [kind |-> "Err", err |-> e, cause |-> cause, store |-> <<>>]
NoResult == [kind |-> "none", err |-> "none", cause |-> "none", store |-> <<>>]

\* chunks.iter().map(|c| c.text.clone()).collect()
ChunkTexts(cs) == [i \in 1..Len(cs) |-> cs[i].text]

\* embed_batch(texts): whether it sends a request to the provider, and what it
\* returns for the provider's answer (reply.ok, reply.embeddings).
EmbedBatchAsks(texts) == texts # <<>>

EmbedBatch(texts, reply) ==
    IF texts = <<>>
    THEN [ok |-> TRUE, embeddings |-> <<>>]
    ELSE IF ~reply.ok
    THEN [ok |-> FALSE, embeddings |-> <<>>]
    ELSE [ok |-> TRUE, embeddings |-> reply.embeddings]

\* The assert_eq! of add_batch.
AddBatchPanics(cs, es) == Len(cs) # Len(es)

\* build_index from `embed_batch(..).await?` on, given embed_batch's result.
BuildIndexFromEmbed(cs, emb) ==
    IF ~emb.ok
    THEN [pc |-> "returned", result |-> ResErr("Ollama", "Request")]
    ELSE IF AddBatchPanics(cs, emb.embeddings)
    THEN [pc |-> "panicked", result |-> NoResult]
    ELSE [pc |-> "returned",
          result |-> ResOk(AddBatch(VectorStoreNew, cs, emb.embeddings))]

\* build_index(root, client, max_chars) up to the point where it waits for the
\* provider: where it stands then, its chunks, the texts it has asked the
\* provider to embed, and the number of requests it has sent.
\* The steps take the value of the step before as a parameter: the chunks, then
\* the scan's result.
BuildIndexStop(pc, res) ==
    [pc |-> pc, result |-> res, chunks |-> <<>>, texts |-> <<>>, calls |-> 0]

BuildIndexEmbed(chunks, texts) ==
    IF EmbedBatchAsks(texts)
    THEN [pc |-> "embed", result |-> NoResult, chunks |-> chunks,
          texts |-> texts, calls |-> 1]
    ELSE LET r == BuildIndexFromEmbed(chunks, EmbedBatch(texts, [ok |-> TRUE, embeddings |-> <<>>]))
         IN  [pc |-> r.pc, result |-> r.result, chunks |-> chunks,
              texts |-> texts, calls |-> 0]

\* A variant of the step after chunk_notes that asks the provider whatever the
\* number of chunks.
BuildIndexChunkedAlwaysAsks(cs) ==
    IF ~cs.ok
    THEN BuildIndexStop("panicked", NoResult)
    ELSE [pc |-> "embed", result |-> NoResult, chunks |-> cs.val,
          texts |-> ChunkTexts(cs.val), calls |-> 1]

BuildIndexChunked(cs) ==
    IF ~cs.ok
    THEN BuildIndexStop("panicked", NoResult)
    ELSE IF cs.val = <<>>
    THEN BuildIndexStop("returned", ResOk(VectorStoreNew))
    ELSE BuildIndexEmbed(cs.val, ChunkTexts(cs.val))

\* A variant of the step after scan_notes that takes a failed scan for a scan
\* that found no notes.
BuildIndexScannedLenient(scan, max) ==
    BuildIndexChunked(ChunkNotes(scan.notes, max))

BuildIndexScanned(scan, max) ==
    IF ~scan.ok
    THEN BuildIndexStop("returned", ResErr("Scan", scan.err))
    ELSE BuildIndexChunked(ChunkNotes(scan.notes, max))

BuildIndexToEmbed(fs, max_opt) ==
    BuildIndexScanned(ScanNotes(fs), UnwrapOr(max_opt, DEFAULT_MAX_CHARS))

\* ---------------------------------------------------------------- state
VARIABLES
    notes,        \* chunk_notes: the notes handed in, in order (the k-th has path k)
    max_chars,    \* chunk_notes: the budget
    ni,           \* chunk_notes: the position of the next note to chunk
    chunks,       \* chunk_notes: the chunks collected so far
    cpc,          \* chunk_notes: "idle", "run", "done", or "panic" once a slice aborted
    items,        \* VectorStore::items: the (chunk, normalized embedding) entries
    sret,         \* the store's latest call and what it returned
    spc,          \* the store's owner: "run", or "panic" after a failed assertion
    runs,         \* build_index: the state of each invocation
    front,        \* strip_frontmatter: the latest call, its content and the body returned
    scan,         \* scan_notes: the latest call, its tree and the result returned
    split         \* split_long_text: its arguments and the state of its loop

chunkVars == <<notes, max_chars, ni, chunks, cpc>>
storeVars == <<items, sret, spc>>
vars == <<notes, max_chars, ni, chunks, cpc, items, sret, spc, runs, front, scan, split>>

\* The parts of the state a chunk_notes call leaves alone, a store call, and a
\* build_index invocation.
notChunk == <<storeVars, runs, front, scan, split>>
notStore == <<chunkVars, runs, front, scan, split>>
notIndex == <<chunkVars, storeVars, front, scan, split>>
notFront == <<chunkVars, storeVars, runs, scan, split>>
notScan == <<chunkVars, storeVars, runs, front, split>>
notSplit == <<chunkVars, storeVars, runs, front, scan>>

\* No call made yet.
NoCall == [op |-> "none", q |-> <<>>, k |-> 0, found |-> <<>>]

\* The states of the parts that a specification does not exercise.
ChunkIdle ==
    /\ notes = <<>>
    /\ max_chars = 0
    /\ ni = 1
    /\ chunks = <<>>
    /\ cpc = "done"

StoreIdle ==
    /\ items = <<>>
    /\ sret = NoCall
    /\ spc = "run"

\* An invocation of build_index that has not started: pc is "idle", then "embed"
\* while it waits for the provider, "returned", or "panicked"; fs and max_chars
\* are its arguments (the tree under root, the budget option), chunks what
\* chunk_notes gave it, texts the request it sent to the provider, reply the
\* provider's answer, result what it returned, calls the requests it has sent.
EmptyTree == [root_is_dir |-> FALSE, entries |-> <<>>]
NoReply == [ok |-> FALSE, embeddings |-> <<>>]
IdleRun ==
    [pc |-> "idle", fs |-> EmptyTree, max_chars |-> None, chunks |-> <<>>,
     texts |-> <<>>, reply |-> NoReply, result |-> NoResult, calls |-> 0]

Runs == 1..NumRuns

IndexIdle == runs = [r \in Runs |-> IdleRun]

\* No call of strip_frontmatter and none of scan_notes made yet.
FrontIdle == front = [pc |-> "idle", content |-> <<>>, body |-> <<>>]
ScanIdle == scan = [pc |-> "idle", fs |-> EmptyTree, result |-> ScanOk(<<>>)]

\* No call of split_long_text made yet.
SplitIdle ==
    split = [pc |-> "idle", text |-> <<>>, max |-> 0,
             ls |-> [remaining |-> <<>>, result |-> <<>>, st |-> "end"]]

\* ---------------------------------------------------------------- inputs
\* The well-formed strings of exactly n bytes.
RECURSIVE StrsOfLen(_)
StrsOfLen(n) ==
    IF n = 0
    THEN {<<>>}
    ELSE {s \in {Append(t, b) : t \in StrsOfLen(n - 1), b \in Bytes \ {LO}} \cup
                {t \o <<HI, LO>> : t \in (IF n >= 2 THEN StrsOfLen(n - 2) ELSE {})} :
              ValidStr(s)}

StrsUpTo(n) == UNION {StrsOfLen(k) : k \in 0..n}

\* The slices of exactly k note bodies whose lengths sum to at most `total`.
RECURSIVE NoteListsOf(_, _)
NoteListsOf(k, total) ==
    IF k = 0
    THEN {<<>>}
    ELSE UNION {{<<b>> \o rest : b \in StrsOfLen(l), rest \in NoteListsOf(k - 1, total - l)} :
                    l \in 0..total}

\* The slices handed to chunk_notes: up to MaxNotes notes, `total` bytes in all.
NoteLists(total) == UNION {NoteListsOf(k, total) : k \in 0..MaxNotes}

\* ---------------------------------------------------------------- chunk_notes
\* chunk_notes has not been called.
ChunkInit ==
    /\ notes = <<>>
    /\ max_chars = 0
    /\ ni = 1
    /\ chunks = <<>>
    /\ cpc = "idle"
    /\ StoreIdle
    /\ IndexIdle
    /\ FrontIdle
    /\ ScanIdle
    /\ SplitIdle

\* A caller calls chunk_notes(notes, max_chars).
ChunkNotesCall ==
    /\ cpc = "idle"
    /\ \E bodies \in NoteLists(MaxBodyLen) :
          notes' = [k \in 1..Len(bodies) |-> MkNote(k, bodies[k], bodies[k])]
    /\ max_chars' \in 0..MaxBudget
    /\ ni' = 1
    /\ chunks' = <<>>
    /\ cpc' = "run"
    /\ UNCHANGED notChunk

\* One turn of chunk_notes' flat_map: chunk_note on the next note, its chunks
\* appended to the collected ones. A slice off a character boundary aborts the call.
ChunkNextNote ==
    /\ cpc = "run"
    /\ ni <= Len(notes)
    /\ LET c == ChunkNote(notes[ni], max_chars)
       IN  IF c.ok
           THEN /\ chunks' = chunks \o c.val
                /\ ni' = ni + 1
                /\ cpc' = "run"
           ELSE /\ cpc' = "panic"
                /\ UNCHANGED <<chunks, ni>>
    /\ UNCHANGED <<notes, max_chars>>
    /\ UNCHANGED notChunk

\* chunk_notes returns the collected chunks.
ChunkReturn ==
    /\ cpc = "run"
    /\ ni > Len(notes)
    /\ cpc' = "done"
    /\ UNCHANGED <<notes, max_chars, ni, chunks>>
    /\ UNCHANGED notChunk

ChunkNext == ChunkNotesCall \/ ChunkNextNote \/ ChunkReturn

SpecChunk == ChunkInit /\ [][ChunkNext]_vars

\* ---------------------------------------------------------------- VectorStore
\* Most entries a store is grown to, largest k asked for, longest batch.
MaxItems == 3
MaxK == 4
MaxBatch == 2

\* The embeddings handed to add: the zero vector, unit and non-unit vectors, and
\* one with a NaN component.
Embeddings ==
    {<<Num(0), Num(0)>>,
     <<Num(1), Num(0)>>,
     <<Num(0), Num(1)>>,
     <<Num(1), Num(1)>>,
     <<NaN, Num(1)>>}

\* The query embeddings handed to search: the empty vector, a unit vector, one
\* with a negative component, and a non-unit one of another dimension.
Queries ==
    {<<>>,
     <<Num(1), Num(0)>>,
     <<Num(-1), Num(1)>>,
     <<Num(2)>>}

\* The chunk handed to the n-th add (n from 0): chunk n of one note.
ChunkNo(n) == [text |-> <<A>>, note_path |-> 1, index |-> n]
ChunksFrom(n, len) == [i \in 1..len |-> ChunkNo(n + i - 1)]

RECURSIVE SeqsOfLen(_, _)
SeqsOfLen(S, n) ==
    IF n = 0 THEN {<<>>} ELSE {Append(t, x) : t \in SeqsOfLen(S, n - 1), x \in S}

StoreInit ==
    /\ ChunkIdle
    /\ IndexIdle
    /\ FrontIdle
    /\ ScanIdle
    /\ SplitIdle
    /\ items = VectorStoreNew
    /\ sret = NoCall
    /\ spc = "run"

\* store.add(chunk, embedding)
StoreAdd ==
    /\ spc = "run"
    /\ Len(items) < MaxItems
    /\ \E e \in Embeddings :
          items' = Add(items, ChunkNo(Len(items)), e)
    /\ sret' = [NoCall EXCEPT !.op = "add"]
    /\ UNCHANGED spc
    /\ UNCHANGED notStore

\* store.add_batch(chunks, embeddings): the assertion that the two lengths are
\* equal aborts the caller when it fails.
StoreAddBatch ==
    /\ spc = "run"
    /\ \E nc \in 0..MaxBatch, ne \in 0..MaxBatch :
          /\ Len(items) + nc <= MaxItems
          /\ IF nc # ne
             THEN /\ spc' = "panic"
                  /\ sret' = [NoCall EXCEPT !.op = "add_batch"]
                  /\ UNCHANGED items
             ELSE /\ \E es \in SeqsOfLen(Embeddings, ne) :
                        items' = AddBatch(items, ChunksFrom(Len(items), nc), es)
                  /\ sret' = [NoCall EXCEPT !.op = "add_batch"]
                  /\ UNCHANGED spc
    /\ UNCHANGED notStore

\* store.search(q, k)
StoreSearch ==
    /\ spc = "run"
    /\ \E q \in Queries, k \in 0..MaxK :
          sret' = [op |-> "search", q |-> q, k |-> k, found |-> Search(items, q, k)]
    /\ UNCHANGED <<items, spc>>
    /\ UNCHANGED notStore

StoreNext == StoreAdd \/ StoreAddBatch \/ StoreSearch

SpecStore == StoreInit /\ [][StoreNext]_vars

\* ---------------------------------------------------------------- build_index
\* File contents: one paragraph of two words, two paragraphs, blank, a note
\* with frontmatter, and a two-byte character followed by a letter.
RawWords == <<A, SP, A>>
RawTwoParas == <<A, NL, NL, A, A>>
RawBlank == <<SP, NL>>
RawFront == <<DASH, DASH, DASH, NL, A, NL, DASH, DASH, DASH, NL, A>>
RawWide == <<HI, LO, A>>

RootDir == Entry(0, FALSE, FALSE, "dir", TRUE, <<>>)
Dir(depth, hidden) == Entry(depth, hidden, FALSE, "dir", TRUE, <<>>)
MdFile(depth, raw) == Entry(depth, FALSE, TRUE, "file", TRUE, raw)
Tree(es) == [root_is_dir |-> TRUE, entries |-> es]

\* The trees build_index is run on: a root that is not a directory; an empty
\* directory; one note; notes at two levels; only hidden, non-markdown and
\* blank files; a subdirectory the walk cannot read; a note that cannot be
\* read; a note with a two-byte character.
IndexTrees ==
    { EmptyTree,
      Tree(<<RootDir>>),
      Tree(<<RootDir, MdFile(1, RawWords)>>),
      Tree(<<RootDir, MdFile(1, RawTwoParas), Dir(1, FALSE), MdFile(2, RawFront)>>),
      Tree(<<RootDir, Dir(1, TRUE), MdFile(2, RawWords),
             Entry(1, FALSE, FALSE, "file", TRUE, RawWords),
             Entry(1, TRUE, TRUE, "file", TRUE, RawWords), MdFile(1, RawBlank)>>),
      Tree(<<RootDir, MdFile(1, RawWords), Dir(1, FALSE),
             Entry(2, FALSE, FALSE, "err", FALSE, <<>>)>>),
      Tree(<<RootDir, MdFile(1, RawWords),
             Entry(1, FALSE, TRUE, "file", FALSE, <<>>)>>),
      Tree(<<RootDir, MdFile(1, RawWide)>>) }

\* The budgets build_index is given: none (the default), and one byte.
MaxCharsOptions == {None, Some(1)}

\* What the provider may answer to a request for n embeddings: a failure, or
\* n - 1, n or n + 1 vectors, the i-th being (i, 2).
ProviderReplies(n) ==
    {NoReply} \cup
    {[ok |-> TRUE, embeddings |-> [i \in 1..m |-> <<Num(i), Num(2)>>]] :
        m \in (n - 1)..(n + 1)}

IndexInit ==
    /\ ChunkIdle
    /\ StoreIdle
    /\ IndexIdle
    /\ FrontIdle
    /\ ScanIdle
    /\ SplitIdle

\* Invocation r of build_index is made and runs until it returns, panics, or
\* waits for the provider.
BuildIndexCall(r) ==
    /\ runs[r].pc = "idle"
    /\ \E fs \in IndexTrees, mc \in MaxCharsOptions :
          LET b == BuildIndexToEmbed(fs, mc)
          IN  runs' = [runs EXCEPT ![r] =
                          [pc |-> b.pc, fs |-> fs, max_chars |-> mc, chunks |-> b.chunks,
                           texts |-> b.texts, reply |-> NoReply, result |-> b.result,
                           calls |-> b.calls]]
    /\ UNCHANGED notIndex

\* The provider answers invocation r's request, and r runs to its end.
ProviderAnswers(r) ==
    /\ runs[r].pc = "embed"
    /\ \E reply \in ProviderReplies(Len(runs[r].texts)) :
          LET e == BuildIndexFromEmbed(runs[r].chunks, EmbedBatch(runs[r].texts, reply))
          IN  runs' = [runs EXCEPT ![r].pc = e.pc, ![r].reply = reply,
                                   ![r].result = e.result]
    /\ UNCHANGED notIndex

IndexNext == \E r \in Runs : BuildIndexCall(r) \/ ProviderAnswers(r)

SpecIndex == IndexInit /\ [][IndexNext]_vars

\* ---------------------------------------------------------------- strip_frontmatter
\* The pieces file contents are put together from: the three-hyphen delimiter,
\* a single hyphen, a letter, a space and a line break.
FrontTokens == {<<DASH, DASH, DASH>>, <<DASH>>, <<A>>, <<SP>>, <<NL>>}

\* The contents of at most n pieces.
RECURSIVE Contents(_)
Contents(n) ==
    IF n = 0
    THEN {<<>>}
    ELSE LET shorter == Contents(n - 1)
         IN  shorter \cup {t \o c : t \in FrontTokens, c \in shorter}

FrontInit ==
    /\ ChunkIdle
    /\ StoreIdle
    /\ IndexIdle
    /\ FrontIdle
    /\ ScanIdle
    /\ SplitIdle

\* strip_frontmatter(content) is called and returns the body.
StripFrontmatterCall ==
    /\ front.pc = "idle"
    /\ \E content \in Contents(MaxTokens) :
          front' = [pc |-> "done", content |-> content, body |-> StripFrontmatter(content)]
    /\ UNCHANGED notFront

FrontNext == StripFrontmatterCall

SpecFront == FrontInit /\ [][FrontNext]_vars

\* ---------------------------------------------------------------- scan_notes
\* What an entry under the root can be: a markdown file, a hidden markdown
\* file, another file, a directory, a hidden directory, a directory whose name
\* ends in .md, a markdown file that cannot be read, and a failure of the walk.
Shapes ==
    { [hidden |-> FALSE, md |-> TRUE, kind |-> "file", readable |-> TRUE],
      [hidden |-> TRUE, md |-> TRUE, kind |-> "file", readable |-> TRUE],
      [hidden |-> FALSE, md |-> FALSE, kind |-> "file", readable |-> TRUE],
      [hidden |-> FALSE, md |-> FALSE, kind |-> "dir", readable |-> TRUE],
      [hidden |-> TRUE, md |-> FALSE, kind |-> "dir", readable |-> TRUE],
      [hidden |-> FALSE, md |-> TRUE, kind |-> "dir", readable |-> TRUE],
      [hidden |-> FALSE, md |-> TRUE, kind |-> "file", readable |-> FALSE],
      [hidden |-> FALSE, md |-> FALSE, kind |-> "err", readable |-> FALSE] }

\* The listings of at most n entries under a root directory whose name starts
\* with '.' or not: an entry lies in the directory listed just before it or in
\* one of the directories that one lies in.
RECURSIVE Listings(_)
Listings(n) ==
    IF n = 0
    THEN {<<Dir(0, h)>> : h \in BOOLEAN}
    ELSE LET shorter == Listings(n - 1)
             last(es) == es[Len(es)]
             deepest(es) == last(es).depth + (IF last(es).kind = "dir" THEN 1 ELSE 0)
         IN  shorter \cup
             UNION {{Append(es, Entry(d, sh.hidden, sh.md, sh.kind, sh.readable,
                                      IF sh.kind = "file" /\ sh.readable THEN <<A>> ELSE <<>>)) :
                         sh \in Shapes, d \in 1..deepest(es)} : es \in shorter}

\* The roots scan_notes is called on: one that is not a directory, and the trees.
ScanTrees(n) == {EmptyTree} \cup {Tree(es) : es \in Listings(n)}

ScanInit ==
    /\ ChunkIdle
    /\ StoreIdle
    /\ IndexIdle
    /\ FrontIdle
    /\ ScanIdle
    /\ SplitIdle

\* scan_notes(root) is called and returns.
ScanNotesCall ==
    /\ scan.pc = "idle"
    /\ \E fs \in ScanTrees(MaxEntries) :
          scan' = [pc |-> "done", fs |-> fs, result |-> ScanNotes(fs)]
    /\ UNCHANGED notScan

ScanNext == ScanNotesCall

SpecScan == ScanInit /\ [][ScanNext]_vars

\* ---------------------------------------------------------------- split_long_text
\* The texts split_into_chunks hands to split_long_text with budget max: a
\* trimmed paragraph (no blank line in it) longer than the budget.
LongTexts(max) ==
    {t \in StrsUpTo(MaxTextLen) :
        /\ Len(t) > max
        /\ Trim(t) = t
        /\ \A i \in 1..(Len(t) - 1) : ~(t[i] = NL /\ t[i + 1] = NL)}

SplitInit ==
    /\ ChunkIdle
    /\ StoreIdle
    /\ IndexIdle
    /\ FrontIdle
    /\ ScanIdle
    /\ SplitIdle

\* split_long_text(text, max_chars) is called: remaining = text, result empty.
SplitLongTextCall ==
    /\ split.pc = "idle"
    /\ \E max \in 1..MaxBudget :
          \E text \in LongTexts(max) :
             split' = [pc |-> "run", text |-> text, max |-> max,
                       ls |-> [remaining |-> text, result |-> <<>>, st |-> "loop"]]
    /\ UNCHANGED notSplit

\* One iteration of the while loop.
SplitLongTextIter ==
    /\ split.pc = "run"
    /\ split.ls.st = "loop"
    /\ split' = [split EXCEPT !.ls = LongIter(split.ls, split.max)]
    /\ UNCHANGED notSplit

SplitNext == SplitLongTextCall \/ SplitLongTextIter

SpecSplit == SplitInit /\ [][SplitNext]_vars

\* ---------------------------------------------------------------- store claims
\* C5: a search returns min(k, len) results for a non-empty query, none when the
\* store or the query is empty or k = 0, never more than k and never more than
\* the store holds.
C5_SearchCount ==
    sret.op = "search" =>
        /\ (sret.q # <<>> => Len(sret.found) = Min2(sret.k, StoreLen(items)))
        /\ ((items = <<>> \/ sret.q = <<>> \/ sret.k = 0) => sret.found = <<>>)
        /\ Len(sret.found) <= sret.k
        /\ Len(sret.found) <= StoreLen(items)

\* A search for fewer entries than the store holds returned exactly k of them.
C5_Witness ==
    /\ sret.op = "search"
    /\ sret.q # <<>>
    /\ sret.k = 2
    /\ StoreLen(items) = 3
    /\ Len(sret.found) = 2

\* The position in the store of a returned entry (the chunks of this
\* specification are numbered as they are added).
PosOf(r) == r.chunk.index + 1
\* The score the store's entry at position i has for the latest query.
ScoreAt(i) == Dot(Normalize(sret.q), items[i].embedding)
Comparable(x, y) == ~x.nan /\ ~y.nan

\* C6: the results of a search are in non-increasing score order, returned
\* entries of equal score are in insertion order, and no entry left out scores
\* higher than a returned one. (A comparison with a NaN score counts as no
\* disorder.)
C6_TopKDescendingStable ==
    sret.op = "search" =>
        /\ \A i, j \in 1..Len(sret.found) :
              (i < j /\ Comparable(sret.found[i].score, sret.found[j].score))
              => ~ScoreLt(sret.found[i].score, sret.found[j].score)
        /\ \A i, j \in 1..Len(sret.found) :
              (i < j /\ PartialCmp(sret.found[i].score, sret.found[j].score) = "Equal")
              => PosOf(sret.found[i]) < PosOf(sret.found[j])
        /\ \A i \in 1..Len(sret.found) :
              \A m \in 1..Len(items) :
                  (/\ \A j \in 1..Len(sret.found) : PosOf(sret.found[j]) # m
                   /\ Comparable(ScoreAt(m), sret.found[i].score))
                  => ~ScoreLt(sret.found[i].score, ScoreAt(m))

\* ---------------------------------------------------------------- chunker claims
\* The chunks collected for the note at position k, in emission order.
ChunksOf(k) == SelectSeq(chunks, LAMBDA c : c.note_path = k)
TextsOf(cs) == [i \in 1..Len(cs) |-> cs[i].text]
RECURSIVE Concat(_)
Concat(ss) == IF ss = <<>> THEN <<>> ELSE Head(ss) \o Concat(Tail(ss))
NonWs(s) == SelectSeq(s, LAMBDA b : ~IsWs(b))
Has(s, b) == \E i \in 1..Len(s) : s[i] = b

\* The paragraphs of a body as the specification defines them: the stretches
\* between blank lines (two consecutive line breaks, matched left to right),
\* found by scanning the body byte by byte; cur is the paragraph being read.
RECURSIVE ScanParagraphs(_, _, _)
ScanParagraphs(s, i, cur) ==
    IF i > Len(s)
    THEN <<cur>>
    ELSE IF s[i] = NL /\ i < Len(s) /\ s[i + 1] = NL
    THEN <<cur>> \o ScanParagraphs(s, i + 2, <<>>)
    ELSE ScanParagraphs(s, i + 1, Append(cur, s[i]))

TrimmedParagraphs(s) ==
    LET ps == ScanParagraphs(s, 1, <<>>)
    IN  SelectSeq([i \in 1..Len(ps) |-> Trim(ps[i])], LAMBDA p : p # <<>>)

\* C1: with a budget >= 1, every chunk returned has a text no longer than the
\* budget; the pieces of a hard-cut whitespace-free run are among them.
C1_ChunkWithinBudget ==
    max_chars >= 1 => \A i \in 1..Len(chunks) : Len(chunks[i].text) <= max_chars

\* A whitespace-free body longer than the budget was hard-cut into several
\* chunks, the first of exactly the budget's length.
C1_Witness ==
    /\ cpc = "done"
    /\ max_chars >= 1
    /\ \E k \in 1..Len(notes) :
          /\ NonWs(notes[k].body) = notes[k].body
          /\ Len(notes[k].body) > max_chars
          /\ Len(ChunksOf(k)) >= 2
          /\ Len(ChunksOf(k)[1].text) = max_chars

\* C2: with a budget >= 1, the non-whitespace bytes of a note's chunks, joined in
\* chunk order, are the non-whitespace bytes of its body in body order.
C2_ContentPreserved ==
    max_chars >= 1 =>
        \A k \in 1..(ni - 1) : NonWs(Concat(TextsOf(ChunksOf(k)))) = NonWs(notes[k].body)

\* A body of both letters with a space between them was cut into several chunks.
C2_Witness ==
    /\ cpc = "done"
    /\ max_chars >= 1
    /\ \E k \in 1..Len(notes) :
          /\ Has(notes[k].body, A) /\ Has(notes[k].body, HI) /\ Has(notes[k].body, SP)
          /\ Len(ChunksOf(k)) >= 2

\* C3: with a budget >= 1, a body whose trimmed paragraphs all fit the budget is
\* returned as one chunk per non-blank paragraph, in body order, each the trimmed
\* paragraph itself.
C3_FittingParagraphsVerbatim ==
    max_chars >= 1 =>
        \A k \in 1..(ni - 1) :
            (\A j \in 1..Len(TrimmedParagraphs(notes[k].body)) :
                 Len(TrimmedParagraphs(notes[k].body)[j]) <= max_chars)
            => TextsOf(ChunksOf(k)) = TrimmedParagraphs(notes[k].body)

\* A body of two fitting paragraphs was returned as two chunks.
C3_Witness ==
    /\ cpc = "done"
    /\ max_chars >= 1
    /\ \E k \in 1..Len(notes) :
          /\ Len(TrimmedParagraphs(notes[k].body)) = 2
          /\ \A j \in 1..2 : Len(TrimmedParagraphs(notes[k].body)[j]) <= max_chars
          /\ Len(ChunksOf(k)) = 2

\* C4: the chunks of each note carry the indices 0, 1, ..., n-1 in emission
\* order, and chunk_notes keeps the notes' chunks in note order, so the indices
\* restart at 0 with every note.
C4_IndicesContiguous ==
    /\ \A k \in 1..Len(notes) :
          \A i \in 1..Len(ChunksOf(k)) : ChunksOf(k)[i].index = i - 1
    /\ \A i, j \in 1..Len(chunks) :
          i < j => chunks[i].note_path <= chunks[j].note_path

\* Two notes were chunked into two or more chunks each.
C4_Witness ==
    /\ cpc = "done"
    /\ Len(notes) = 2
    /\ Len(ChunksOf(1)) >= 2
    /\ Len(ChunksOf(2)) >= 2
    /\ chunks[Len(ChunksOf(1)) + 1].index = 0


\* ---------------------------------------------------------------- build_index claims
\* The entries above entry i in the tree, and i itself: for each smaller depth
\* the last entry of that depth before i.
PathTo(es, i) ==
    {j \in 1..i : j = i \/ (es[j].depth < es[i].depth
                            /\ \A k \in (j + 1)..i : es[k].depth > es[j].depth)}

\* The walk comes to entry i: none of the names on its path starts with '.'.
Reached(es, i) == \A j \in PathTo(es, i) : ~es[j].hidden

\* A qualifying file: a file with the md extension that the walk comes to.
Qualifies(es, i) == Reached(es, i) /\ es[i].md /\ es[i].kind = "file"

\* The causes for which a scan of the tree can fail.
ScanCauses(fs) ==
    IF ~fs.root_is_dir
    THEN {"NotADirectory"}
    ELSE (IF \E i \in 1..Len(fs.entries) : Reached(fs.entries, i) /\ fs.entries[i].kind = "err"
          THEN {"Walk"} ELSE {})
         \cup
         (IF \E i \in 1..Len(fs.entries) : Qualifies(fs.entries, i) /\ ~fs.entries[i].readable
          THEN {"Read"} ELSE {})

Started(r) == runs[r].pc # "idle"
Ended(r) == runs[r].pc \in {"returned", "panicked"}
Answered(r) == Ended(r) /\ runs[r].calls > 0

\* C7: a run whose scan fails returns that failure as an IndexError without
\* calling the provider, a run whose request to the provider fails returns that
\* failure as an IndexError, and a store that is returned holds all the chunks
\* of its run.
C7_FailureReturnsNoStore ==
    \A r \in Runs :
        /\ (Started(r) /\ ScanCauses(runs[r].fs) # {}) =>
               /\ runs[r].pc = "returned"
               /\ runs[r].result.kind = "Err"
               /\ runs[r].result.err = "Scan"
               /\ runs[r].result.cause \in ScanCauses(runs[r].fs)
               /\ runs[r].calls = 0
        /\ (Answered(r) /\ ~runs[r].reply.ok) =>
               /\ runs[r].pc = "returned"
               /\ runs[r].result.kind = "Err"
               /\ runs[r].result.err = "Ollama"
        /\ runs[r].result.kind = "Ok" => Len(runs[r].result.store) = Len(runs[r].chunks)
        /\ runs[r].result.kind # "Ok" => runs[r].result.store = <<>>

C7_Witness ==
    \E r, r2 \in Runs :
        /\ runs[r].result.err = "Scan"
        /\ runs[r].result.cause = "Read"
        /\ runs[r2].result.err = "Ollama"
        /\ runs[r2].chunks # <<>>

\* C8: when the provider answers with a number of vectors other than the number
\* of texts asked for, the run returns an IndexError of the provider.
C8_MiscountIsProviderFailure ==
    \A r \in Runs :
        (/\ Answered(r)
         /\ runs[r].reply.ok
         /\ Len(runs[r].reply.embeddings) # Len(runs[r].texts)) =>
            /\ runs[r].pc = "returned"
            /\ runs[r].result.kind = "Err"
            /\ runs[r].result.err = "Ollama"

\* The tree gives no chunk: its scan does not fail, and every qualifying file
\* has a body that is blank.
NoChunksIn(fs) ==
    /\ ScanCauses(fs) = {}
    /\ \A i \in 1..Len(fs.entries) :
          Qualifies(fs.entries, i) => NonWs(StripFrontmatter(fs.entries[i].raw)) = <<>>

\* C9: a run on a tree that gives no chunk returns Ok with an empty store and
\* sends no request to the provider.
C9_NoChunksNoProviderCall ==
    \A r \in Runs :
        (Started(r) /\ NoChunksIn(runs[r].fs)) =>
            /\ runs[r].pc = "returned"
            /\ runs[r].result.kind = "Ok"
            /\ runs[r].result.store = <<>>
            /\ runs[r].calls = 0

C9_Witness ==
    \E r, r2 \in Runs :
        /\ Started(r) /\ NoChunksIn(runs[r].fs)
        /\ \E i \in 1..Len(runs[r].fs.entries) : Qualifies(runs[r].fs.entries, i)
        /\ Started(r2) /\ NoChunksIn(runs[r2].fs)
        /\ Len(runs[r2].fs.entries) = 1

\* The stored embedding e is the vector w scaled to length one: it has length
\* one and the direction of w.
UnitOf(e, w) ==
    /\ ~e.nan
    /\ Len(e.v) = Len(w)
    /\ DotInt(e.v, e.v, Len(e.v)) = e.n2
    /\ \A j, k \in 1..Len(w) : e.v[j] * w[k].num = e.v[k] * w[j].num
    /\ \A j \in 1..Len(w) : e.v[j] * w[j].num >= 0

\* C10: the store of a run that returns Ok with n >= 1 chunks has n entries,
\* the i-th being the run's i-th chunk with the i-th vector of the answer to the
\* run's request scaled to length one; every chunk in it is of a qualifying
\* file of the run's own tree, in the order of the walk.
C10_StoreIsOfThisRun ==
    \A r \in Runs :
        (runs[r].result.kind = "Ok" /\ Len(runs[r].chunks) >= 1) =>
            LET st == runs[r].result.store
                es == runs[r].fs.entries
            IN  /\ Len(st) = Len(runs[r].chunks)
                /\ Len(st) = Len(runs[r].reply.embeddings)
                /\ \A i \in 1..Len(st) :
                      /\ st[i].chunk = runs[r].chunks[i]
                      /\ UnitOf(st[i].embedding, runs[r].reply.embeddings[i])
                      /\ st[i].chunk.note_path \in 1..Len(es)
                      /\ Qualifies(es, st[i].chunk.note_path)
                /\ \A i, j \in 1..Len(st) :
                      i < j => st[i].chunk.note_path <= st[j].chunk.note_path

C10_Witness ==
    \E r, r2 \in Runs :
        /\ runs[r].result.kind = "Ok"
        /\ runs[r2].result.kind = "Ok"
        /\ Len(runs[r].result.store) = 2
        /\ Len(runs[r2].result.store) > 2
        /\ \E i, j \in 1..Len(runs[r2].result.store) :
              runs[r2].result.store[i].chunk.note_path # runs[r2].result.store[j].chunk.note_path


\* ---------------------------------------------------------------- strip_frontmatter claims
\* The offsets at which a line of t begins, and the line that begins at offset p.
LineStarts(t) == {0} \cup {i \in 1..Len(t) : t[i] = NL}
LineAt(t, p) ==
    LET ends == {i \in (p + 1)..Len(t) : t[i] = NL}
    IN  SubSeq(t, p + 1, IF ends = {} THEN Len(t) ELSE SetMin(ends) - 1)

\* A delimiter line: a line consisting of three hyphens.
IsDelimLine(t, p) == LineAt(t, p) = <<DASH, DASH, DASH>>

\* The offsets of the delimiter lines of t after its first line.
LaterDelims(t) == {p \in LineStarts(t) : p > 0 /\ IsDelimLine(t, p)}

\* C11: when the trimmed content begins with a delimiter line and has a later
\* delimiter line, the body is the text after the first later delimiter line
\* with its leading whitespace trimmed.
C11_BodyAfterClosingDelimiter ==
    front.pc = "done" =>
        LET t == TrimStart(front.content)
        IN  (IsDelimLine(t, 0) /\ LaterDelims(t) # {}) =>
                front.body = TrimStart(SliceFrom(t, SetMin(LaterDelims(t)) + 3))

\* C12: when the trimmed content does not begin with three hyphens, or has no
\* later delimiter line, the body is the content as it is.
C12_BodyIsRawContent ==
    front.pc = "done" =>
        LET t == TrimStart(front.content)
        IN  (~StartsWith(t, <<DASH, DASH, DASH>>) \/ LaterDelims(t) = {}) =>
                front.body = front.content


\* ---------------------------------------------------------------- scan_notes claims
\* A file with the md extension none of whose path components below the root
\* has a name that begins with a dot.
VisibleNote(es, i) ==
    /\ es[i].md
    /\ es[i].kind = "file"
    /\ \A j \in PathTo(es, i) : j # 1 => ~es[j].hidden

\* C13: a scan of a root directory that returns Ok returns one Note, with the
\* file's path and content, for each markdown file not hidden and not under a
\* hidden directory, in the order of the walk, and nothing else.
C13_ExactlyVisibleMarkdown ==
    (scan.pc = "done" /\ scan.fs.root_is_dir /\ scan.result.ok) =>
        LET es == scan.fs.entries
            ns == scan.result.notes
        IN  /\ \A i \in 1..Len(es) :
                  Cardinality({k \in 1..Len(ns) : ns[k].path = i})
                      = (IF VisibleNote(es, i) THEN 1 ELSE 0)
            /\ \A k \in 1..Len(ns) :
                  /\ ns[k].path \in 1..Len(es)
                  /\ ns[k].raw = es[ns[k].path].raw
                  /\ ns[k].body = StripFrontmatter(ns[k].raw)


\* ---------------------------------------------------------------- store contents claims
\* The store holds the pairs added so far in the order they were added: the
\* i-th entry is the i-th chunk added (the chunks are numbered as they are
\* added), len() is their number and is_empty() holds exactly when it is 0.
StoreInOrder ==
    /\ \A i \in 1..Len(items) : items[i].chunk = ChunkNo(i - 1)
    /\ StoreLen(items) = Len(items)
    /\ StoreIsEmpty(items) <=> (Len(items) = 0)

\* What a call does to the store: add appends one entry, add_batch appends
\* entries, both leave the earlier entries where they are, and search leaves
\* the store as it is.
StoreStep ==
    /\ sret'.op = "add" =>
          (items' = items /\ sret' = sret)
          \/ (StoreLen(items') = StoreLen(items) + 1 /\ SubSeq(items', 1, Len(items)) = items)
    /\ sret'.op = "add_batch" =>
          /\ StoreLen(items') >= StoreLen(items)
          /\ SubSeq(items', 1, Len(items)) = items
    /\ sret'.op = "search" => items' = items

\* C14: after any sequence of add, add_batch and search calls the store is
\* the sequence of the added pairs in insertion order, each call appending and
\* never changing an earlier entry, search changing nothing.
C14_StoreIsInsertionSequence == []StoreInOrder /\ [][StoreStep]_vars

C14_Witness ==
    /\ StoreLen(items) = 3
    /\ sret.op = "search"
    /\ Len(sret.found) = 3
    /\ items[1].embedding # items[2].embedding


\* ---------------------------------------------------------------- split_long_text claims
\* The positions of byte b in the window: the first budget + 1 bytes of t.
InWindow(t, max, b) == {i \in 1..Min2(Len(t), max + 1) : t[i] = b}

\* The cut the specification prescribes for a text longer than the budget: at
\* the last line break of the window, else at the last space of the window,
\* else after exactly budget bytes; what is emitted and where scanning resumes.
PrescribedCut(t, max) ==
    IF InWindow(t, max, NL) # {}
    THEN LET p == SetMax(InWindow(t, max, NL))
         IN  [chunk |-> Trim(SubSeq(t, 1, p - 1)),
              rest |-> TrimStart(SubSeq(t, p + 1, Len(t)))]
    ELSE IF InWindow(t, max, SP) # {}
    THEN LET p == SetMax(InWindow(t, max, SP))
         IN  [chunk |-> SubSeq(t, 1, p - 1),
              rest |-> TrimStart(SubSeq(t, p + 1, Len(t)))]
    ELSE [chunk |-> SubSeq(t, 1, max),
          rest |-> TrimStart(SubSeq(t, max + 1, Len(t)))]

\* One iteration of the loop that does not abort: a remaining text within the
\* budget is emitted as the last chunk, a longer one is cut as prescribed.
CutStep ==
    (split.pc = "run" /\ split.ls.st = "loop" /\ split'.ls.st # "panic") =>
        LET r == split.ls.remaining
            cut == PrescribedCut(r, split.max)
        IN  IF r = <<>>
            THEN split'.ls.st = "end" /\ split'.ls.result = split.ls.result
            ELSE IF Len(r) <= split.max
            THEN split'.ls.st = "end" /\ split'.ls.result = Append(split.ls.result, r)
            ELSE /\ split'.ls.st = "loop"
                 /\ split'.ls.result = Append(split.ls.result, cut.chunk)
                 /\ split'.ls.remaining = cut.rest

\* C15: each cut of a text longer than the budget is made at the last line break
\* within the first budget + 1 bytes, else at the last space within them, else
\* after exactly budget bytes, and a remaining text within the budget is emitted
\* as the final chunk.
C15_CutAtPreferredBoundary == [][CutStep]_vars

\* A text whose window holds a line break and, after it, a space was cut at the
\* line break.
C15_Witness ==
    /\ split.text = <<A, NL, A, SP, A>>
    /\ split.max = 3
    /\ split.ls.st = "end"
    /\ split.ls.result = << <<A>>, <<A, SP, A>> >>


\* ---------------------------------------------------------------- termination claims
\* C16: for every body and every budget, chunk_note returns: no slice of the
\* splitter aborts the call.
C16_ChunkNoteReturns == cpc # "panic"

====
